---- MODULE Spec2Model ----
(***************************************************************************)
(* Model of asm_to_pil/src/common.rs: the name generators                  *)
(* (instruction_flag, input_at, output_at, output_registers) and           *)
(* return_instruction, which formats an instruction text and hands it to   *)
(* parse_instruction.                                                      *)
(*                                                                         *)
(* A string is a sequence of one-character strings, so that formatting,    *)
(* joining and parsing are computed character by character.                *)
(***************************************************************************)
EXTENDS Integers, Sequences, FiniteSets

VARIABLES calls, parsed, frames

vars == <<calls, parsed, frames>>

(***************************************************************************)
(* Bounds of the model.                                                    *)
(***************************************************************************)
MaxCalls == 2
MaxIndex == 12
MaxCount == 2
MaxNameLen == 2
NumCallers == 2

(***************************************************************************)
(* String literals of the source.                                          *)
(***************************************************************************)
RETURN_NAME == <<"r", "e", "t", "u", "r", "n">>
RESET_NAME == <<"_", "r", "e", "s", "e", "t">>
InstrPrefix == <<"i", "n", "s", "t", "r", "_">>
InputPrefix == <<"_", "i", "n", "p", "u", "t", "_">>
OutputPrefix == <<"_", "o", "u", "t", "p", "u", "t", "_">>
JoinSeparator == <<",", " ">>
ClauseOpen == <<" ", "{", " ">>
ClauseClose == <<"'", " ", "=", " ", "0", " ", "}">>

DigitChars == <<"0", "1", "2", "3", "4", "5", "6", "7", "8", "9">>

(***************************************************************************)
(* `{}` applied to a usize: the decimal digits, most significant first.    *)
(***************************************************************************)
(* Variant: the digits least significant first. *)
RECURSIVE DecimalReversed(_)
DecimalReversed(i) ==
    IF i < 10 THEN <<DigitChars[i + 1]>>
    ELSE <<DigitChars[(i % 10) + 1]>> \o DecimalReversed(i \div 10)

RECURSIVE Decimal(_)
Decimal(i) ==
    IF i < 10 THEN <<DigitChars[i + 1]>>
    ELSE Decimal(i \div 10) \o <<DigitChars[(i % 10) + 1]>>

(* Variants: the prefix left out; the name left out. *)
instruction_flag_no_prefix(name) == name
instruction_flag_no_name(name) == InstrPrefix

instruction_flag(name) == InstrPrefix \o name

(* Variant: only the last digit of the index is written. *)
input_at_last_digit(i) == InputPrefix \o Decimal(i % 10)

input_at(i) == InputPrefix \o Decimal(i)

output_at(i) == OutputPrefix \o Decimal(i)

(* Variant: the range starts at 1 and includes count. *)
output_registers_from_one(count) == [k \in 1..count |-> output_at(k)]

output_registers(count) == [k \in 1..count |-> output_at(k - 1)]

(* Variant: sep after every element, the last one included. *)
RECURSIVE JoinTrailing(_, _)
JoinTrailing(v, sep) ==
    IF Len(v) = 0 THEN <<>>
    ELSE v[1] \o sep \o JoinTrailing(Tail(v), sep)

(***************************************************************************)
(* [String]::join(sep): the elements with sep between neighbours.          *)
(***************************************************************************)
RECURSIVE Join(_, _)
Join(v, sep) ==
    IF Len(v) = 0 THEN <<>>
    ELSE IF Len(v) = 1 THEN v[1]
    ELSE v[1] \o sep \o Join(Tail(v), sep)

(* Variant: the prime after pc_name is missing. *)
FormatReturnNoPrime(joined, pc_name) ==
    joined \o ClauseOpen \o pc_name \o Tail(ClauseClose)

(***************************************************************************)
(* format!("{} {{ {pc_name}' = 0 }}", joined)                              *)
(***************************************************************************)
FormatReturn(joined, pc_name) == joined \o ClauseOpen \o pc_name \o ClauseClose

ReturnText(output_count, pc_name) ==
    FormatReturn(Join(output_registers(output_count), JoinSeparator), pc_name)

(***************************************************************************)
(* parse_instruction: the instruction-text parser return_instruction       *)
(* calls.  It accepts                                                      *)
(*     [ident {, ident}] { ident ' = number }                              *)
(* with blanks allowed between tokens, and rejects every other text.       *)
(***************************************************************************)
Letters ==
    {"a", "b", "c", "d", "e", "f", "g", "h", "i", "j", "k", "l", "m",
     "n", "o", "p", "q", "r", "s", "t", "u", "v", "w", "x", "y", "z"}
Digits == {DigitChars[k] : k \in 1..Len(DigitChars)}
IdentStart == Letters \cup {"_"}
IdentChars == IdentStart \cup Digits
Symbols == {",", "{", "}", "'", "="}

Drop(s, n) == SubSeq(s, n + 1, Len(s))

RECURSIVE RunLen(_, _)
RunLen(s, S) ==
    IF s = <<>> \/ Head(s) \notin S THEN 0 ELSE 1 + RunLen(Tail(s), S)

Token(kind, val) == [kind |-> kind, val |-> val]

RECURSIVE Lex(_)
Lex(s) ==
    IF s = <<>> THEN <<>>
    ELSE LET c == Head(s) IN
         IF c = " " THEN Lex(Tail(s))
         ELSE IF c \in Symbols THEN <<Token("sym", <<c>>)>> \o Lex(Tail(s))
         ELSE IF c \in IdentStart
              THEN LET n == RunLen(s, IdentChars)
                   IN <<Token("ident", SubSeq(s, 1, n))>> \o Lex(Drop(s, n))
         ELSE IF c \in Digits
              THEN LET n == RunLen(s, Digits)
                   IN <<Token("number", SubSeq(s, 1, n))>> \o Lex(Drop(s, n))
         ELSE <<Token("bad", <<c>>)>> \o Lex(Tail(s))

IsSym(t, c) == t.kind = "sym" /\ t.val = <<c>>

IsParamList(ts) ==
    \/ ts = <<>>
    \/ /\ Len(ts) % 2 = 1
       /\ \A k \in 1..Len(ts) :
             IF k % 2 = 1 THEN ts[k].kind = "ident" ELSE IsSym(ts[k], ",")

IsBody(ts) ==
    /\ Len(ts) = 6
    /\ IsSym(ts[1], "{")
    /\ ts[2].kind = "ident"
    /\ IsSym(ts[3], "'")
    /\ IsSym(ts[4], "=")
    /\ ts[5].kind = "number"
    /\ IsSym(ts[6], "}")

Rejected == [ok |-> FALSE, params |-> <<>>, target |-> <<>>, value |-> <<>>]

parse_instruction(text) ==
    LET ts == Lex(text)
        braces == {k \in 1..Len(ts) : IsSym(ts[k], "{")}
    IN  IF braces = {} THEN Rejected
        ELSE LET b == CHOOSE k \in braces : \A m \in braces : k <= m
                 head == SubSeq(ts, 1, b - 1)
                 body == SubSeq(ts, b, Len(ts))
             IN  IF IsParamList(head) /\ IsBody(body)
                 THEN [ok |-> TRUE,
                       params |-> [k \in 1..((Len(head) + 1) \div 2) |-> head[2 * k - 1].val],
                       target |-> body[2].val,
                       value |-> body[5].val]
                 ELSE Rejected

(***************************************************************************)
(* return_instruction: the text is built and parsed; a rejected text       *)
(* makes the call panic (ok = FALSE in the result).                        *)
(***************************************************************************)
return_instruction(output_count, pc_name) ==
    parse_instruction(ReturnText(output_count, pc_name))

(***************************************************************************)
(* Arguments the callers draw from.                                        *)
(***************************************************************************)
NameAlphabet == {"_", "0"}

RECURSIVE StringsUpTo(_)
StringsUpTo(n) ==
    IF n = 0 THEN {<<>>}
    ELSE LET shorter == StringsUpTo(n - 1)
         IN  shorter \cup {<<c>> \o s : c \in NameAlphabet, s \in {t \in shorter : Len(t) = n - 1}}

Names ==
    StringsUpTo(MaxNameLen) \cup
    { <<"f", "o", "o">>, RETURN_NAME, RESET_NAME,
      <<"_", "i", "n", "p", "u", "t", "_", "0">>,
      <<"_", "o", "u", "t", "p", "u", "t", "_", "0">>,
      <<"t", "_", "0">>, <<"_", "0">> }

Indices == (0..MaxIndex) \cup {20, 21, 100, 101, 110, 1000}

Counts == 0..MaxCount

PcNames == { <<"p", "c">>, <<>>, <<"p", " ", "c">>, <<"x", "_", "1">>, <<"a", ",", "b">> }

(***************************************************************************)
(* A caller that makes one call after another.  calls is the record of     *)
(* the calls made and what each returned; parsed is the record of the      *)
(* texts handed to parse_instruction and of the call that handed them.     *)
(***************************************************************************)
Call(op, n, s, result) == [op |-> op, n |-> n, s |-> s, result |-> result]

CallInstructionFlag(name) ==
    /\ calls' = Append(calls, Call("instruction_flag", 0, name, instruction_flag(name)))
    /\ UNCHANGED <<parsed, frames>>

CallInputAt(i) ==
    /\ calls' = Append(calls, Call("input_at", i, <<>>, input_at(i)))
    /\ UNCHANGED <<parsed, frames>>

(* Variant: the name is numbered by a counter of the calls made so far. *)
CallOutputAtCounter(i) ==
    /\ calls' = Append(calls, Call("output_at", i, <<>>, output_at(i + Len(calls))))
    /\ UNCHANGED <<parsed, frames>>

CallOutputAt(i) ==
    /\ calls' = Append(calls, Call("output_at", i, <<>>, output_at(i)))
    /\ UNCHANGED <<parsed, frames>>

CallOutputRegisters(count) ==
    /\ calls' = Append(calls, Call("output_registers", count, <<>>, output_registers(count)))
    /\ UNCHANGED <<parsed, frames>>

(* Variant: an empty pc_name is refused before the parser is called. *)
CallReturnInstructionValidating(output_count, pc_name) ==
    /\ LET text == ReturnText(output_count, pc_name) IN
          /\ parsed' = IF pc_name = <<>> THEN parsed
                       ELSE Append(parsed, [text |-> text, call |-> Len(calls) + 1])
          /\ calls' = Append(calls, Call("return_instruction", output_count, pc_name,
                                         IF pc_name = <<>> THEN Rejected
                                         ELSE parse_instruction(text)))
    /\ UNCHANGED frames

CallReturnInstruction(output_count, pc_name) ==
    /\ LET text == ReturnText(output_count, pc_name) IN
          /\ parsed' = Append(parsed, [text |-> text, call |-> Len(calls) + 1])
          /\ calls' = Append(calls, Call("return_instruction", output_count, pc_name,
                                         parse_instruction(text)))
    /\ UNCHANGED frames

IdleFrames == [c \in 1..NumCallers |-> [pc |-> "idle"]]

Init ==
    /\ calls = <<>>
    /\ parsed = <<>>
    /\ frames = IdleFrames

CanCall == Len(calls) < MaxCalls

Next ==
    \/ \E name \in Names : CanCall /\ CallInstructionFlag(name)
    \/ \E i \in Indices : CanCall /\ CallInputAt(i)
    \/ \E i \in Indices : CanCall /\ CallOutputAt(i)
    \/ \E count \in Counts : CanCall /\ CallOutputRegisters(count)
    \/ \E output_count \in Counts, pc_name \in PcNames :
          CanCall /\ CallReturnInstruction(output_count, pc_name)

Spec == Init /\ [][Next]_vars

(***************************************************************************)
(* The same caller with a longer record of calls and fewer arguments: the  *)
(* calls that come before a call are its history.                          *)
(***************************************************************************)
MaxHistory == 3

HistNames == { <<>>, <<"f", "o", "o">> }
HistIndices == {0, 10}
HistCounts == {0, MaxCount}
HistPcNames == { <<"p", "c">>, <<>> }

CanCallHist == Len(calls) < MaxHistory

NextHist ==
    \/ \E name \in HistNames : CanCallHist /\ CallInstructionFlag(name)
    \/ \E i \in HistIndices : CanCallHist /\ CallInputAt(i)
    \/ \E i \in HistIndices : CanCallHist /\ CallOutputAt(i)
    \/ \E count \in HistCounts : CanCallHist /\ CallOutputRegisters(count)
    \/ \E output_count \in HistCounts, pc_name \in HistPcNames :
          CanCallHist /\ CallReturnInstruction(output_count, pc_name)

SpecHist == Init /\ [][NextHist]_vars

(***************************************************************************)
(* Callers running concurrently, one call each.  A call's locals live in   *)
(* the caller's own frame: the vector output_registers collects, the       *)
(* joined list, the formatted text and the result.  A step of a caller is  *)
(* one evaluation of the call's body:                                      *)
(*   start -> done                 instruction_flag, input_at, output_at   *)
(*   start -> collect* -> done     output_registers                        *)
(*   start -> collect* -> join -> format -> parse -> done                  *)
(*                                 return_instruction                      *)
(***************************************************************************)
Callers == 1..NumCallers

Frame(op, n, s) ==
    [pc |-> "start", op |-> op, n |-> n, s |-> s, k |-> 0, regs |-> <<>>,
     joined |-> <<>>, text |-> <<>>, result |-> <<>>]

ConcNames == { <<>>, <<"f", "o", "o">> }
ConcIndices == {0, 11}
ConcCounts == {0, MaxCount}
ConcPcNames == { <<"p", "c">>, <<>> }

StartFrames ==
    {Frame("instruction_flag", 0, name) : name \in ConcNames}
    \cup {Frame("input_at", i, <<>>) : i \in ConcIndices}
    \cup {Frame("output_at", i, <<>>) : i \in ConcIndices}
    \cup {Frame("output_registers", count, <<>>) : count \in ConcCounts}
    \cup {Frame("return_instruction", count, pc_name) :
             count \in ConcCounts, pc_name \in ConcPcNames}

InitConc ==
    /\ calls = <<>>
    /\ parsed = <<>>
    /\ frames \in [Callers -> StartFrames]

At(c, op, pc) == frames[c].op = op /\ frames[c].pc = pc

StepInstructionFlag(c) ==
    /\ At(c, "instruction_flag", "start")
    /\ frames' = [frames EXCEPT ![c].result = instruction_flag(frames[c].s),
                                ![c].pc = "done"]
    /\ UNCHANGED <<calls, parsed>>

StepInputAt(c) ==
    /\ At(c, "input_at", "start")
    /\ frames' = [frames EXCEPT ![c].result = input_at(frames[c].n),
                                ![c].pc = "done"]
    /\ UNCHANGED <<calls, parsed>>

StepOutputAt(c) ==
    /\ At(c, "output_at", "start")
    /\ frames' = [frames EXCEPT ![c].result = output_at(frames[c].n),
                                ![c].pc = "done"]
    /\ UNCHANGED <<calls, parsed>>

(* (0..count).map(output_at).collect(): entering the iterator *)
StepBeginCollect(c) ==
    /\ frames[c].op \in {"output_registers", "return_instruction"}
    /\ frames[c].pc = "start"
    /\ frames' = [frames EXCEPT ![c].pc = "collect"]
    /\ UNCHANGED <<calls, parsed>>

(* one element of the iterator: output_at(k) is pushed *)
StepCollect(c) ==
    /\ frames[c].pc = "collect"
    /\ frames[c].k < frames[c].n
    /\ frames' = [frames EXCEPT ![c].regs = Append(@, output_at(frames[c].k)),
                                ![c].k = @ + 1]
    /\ UNCHANGED <<calls, parsed>>

(* the iterator is exhausted: output_registers returns the vector *)
StepEndCollect(c) ==
    /\ frames[c].pc = "collect"
    /\ frames[c].k = frames[c].n
    /\ frames' = IF frames[c].op = "output_registers"
                 THEN [frames EXCEPT ![c].result = frames[c].regs, ![c].pc = "done"]
                 ELSE [frames EXCEPT ![c].pc = "join"]
    /\ UNCHANGED <<calls, parsed>>

(* Variant: the vector joined is one buffer all callers share. *)
StepJoinShared(c) ==
    /\ At(c, "return_instruction", "join")
    /\ frames' = [frames EXCEPT ![c].joined = Join(frames[1].regs, JoinSeparator),
                                ![c].pc = "format"]
    /\ UNCHANGED <<calls, parsed>>

StepJoin(c) ==
    /\ At(c, "return_instruction", "join")
    /\ frames' = [frames EXCEPT ![c].joined = Join(frames[c].regs, JoinSeparator),
                                ![c].pc = "format"]
    /\ UNCHANGED <<calls, parsed>>

StepFormat(c) ==
    /\ At(c, "return_instruction", "format")
    /\ frames' = [frames EXCEPT ![c].text = FormatReturn(frames[c].joined, frames[c].s),
                                ![c].pc = "parse"]
    /\ UNCHANGED <<calls, parsed>>

StepParse(c) ==
    /\ At(c, "return_instruction", "parse")
    /\ frames' = [frames EXCEPT ![c].result = parse_instruction(frames[c].text),
                                ![c].pc = "done"]
    /\ UNCHANGED <<calls, parsed>>

NextConc ==
    \/ \E c \in Callers : StepInstructionFlag(c)
    \/ \E c \in Callers : StepInputAt(c)
    \/ \E c \in Callers : StepOutputAt(c)
    \/ \E c \in Callers : StepBeginCollect(c)
    \/ \E c \in Callers : StepCollect(c)
    \/ \E c \in Callers : StepEndCollect(c)
    \/ \E c \in Callers : StepJoin(c)
    \/ \E c \in Callers : StepFormat(c)
    \/ \E c \in Callers : StepParse(c)

SpecConc == InitConc /\ [][NextConc]_vars

(***************************************************************************)
(* Properties.                                                             *)
(***************************************************************************)
NameOps == {"instruction_flag", "input_at", "output_at"}
IndexOps == {"input_at", "output_at"}

DigitOf(c) == CHOOSE d \in 0..9 : DigitChars[d + 1] = c

RECURSIVE DigitsValue(_)
DigitsValue(d) ==
    IF d = <<>> THEN 0
    ELSE 10 * DigitsValue(SubSeq(d, 1, Len(d) - 1)) + DigitOf(d[Len(d)])

IsDecimalOf(d, i) ==
    /\ Len(d) >= 1
    /\ \A k \in 1..Len(d) : d[k] \in Digits
    /\ Len(d) > 1 => d[1] # "0"
    /\ DigitsValue(d) = i

HasPrefix(s, p) == Len(s) >= Len(p) /\ SubSeq(s, 1, Len(p)) = p

CountChar(s, c) == Cardinality({k \in 1..Len(s) : s[k] = c})

(* the clause { <pc_name>' = 0 } *)
Clause(pc_name) ==
    <<"{", " ">> \o pc_name \o <<"'", " ", "=", " ", "0", " ", "}">>

(* _output_0, _output_1, ..., _output_(n-1), built from the left, n >= 1 *)
RECURSIVE ListedOutputs(_)
ListedOutputs(n) ==
    IF n = 1 THEN <<"_", "o", "u", "t", "p", "u", "t", "_", "0">>
    ELSE ListedOutputs(n - 1) \o <<",", " ">>
            \o <<"_", "o", "u", "t", "p", "u", "t", "_">> \o Decimal(n - 1)

(* C1: input_at and output_at are injective: two calls of the same one of  *)
(* them with different indices return different names.                     *)
C1_IndexInjective ==
    \A a, b \in DOMAIN calls :
        ( /\ calls[a].op \in IndexOps
          /\ calls[b].op = calls[a].op
          /\ calls[a].n # calls[b].n )
        => calls[a].result # calls[b].result

C1_Witness ==
    \E a, b \in DOMAIN calls :
        /\ calls[a].op = "input_at" /\ calls[a].n = 1
        /\ calls[b].op = "input_at" /\ calls[b].n = 11
        /\ calls[a].result # calls[b].result

(* C2: the namespaces are pairwise disjoint: a name returned by one of     *)
(* instruction_flag, input_at, output_at is never returned by another of   *)
(* them, whatever the index and the instruction name.                      *)
C2_NamespacesDisjoint ==
    \A a, b \in DOMAIN calls :
        ( /\ calls[a].op \in NameOps
          /\ calls[b].op \in NameOps
          /\ calls[a].op # calls[b].op )
        => calls[a].result # calls[b].result

C2_Witness ==
    \E a, b \in DOMAIN calls :
        /\ calls[a].op = "instruction_flag"
        /\ calls[a].s = <<"_", "i", "n", "p", "u", "t", "_", "0">>
        /\ calls[b].op = "input_at" /\ calls[b].n = 0
        /\ calls[a].result # calls[b].result

(* C3: output_registers(n) has exactly n elements, the k-th (from 0) being *)
(* output_at(k); output_registers(0) is the empty sequence.                *)
C3_OutputRegistersExact ==
    \A a \in DOMAIN calls :
        calls[a].op = "output_registers" =>
            /\ Len(calls[a].result) = calls[a].n
            /\ \A k \in 0..(calls[a].n - 1) :
                  calls[a].result[k + 1] = OutputPrefix \o Decimal(k)
            /\ calls[a].n = 0 => calls[a].result = <<>>

C3_Witness ==
    \E a, b \in DOMAIN calls :
        /\ calls[a].op = "output_registers" /\ calls[a].n = 0
        /\ calls[a].result = <<>>
        /\ calls[b].op = "output_registers" /\ calls[b].n >= 2
        /\ Len(calls[b].result) = calls[b].n

(* C4, as claimed: for output_count = 0 the text handed to the parser is   *)
(* exactly { <pc_name>' = 0 }, with nothing before the opening brace.      *)
C4_NothingBeforeBrace ==
    \A p \in DOMAIN parsed :
        calls[parsed[p].call].n = 0 =>
            parsed[p].text = Clause(calls[parsed[p].call].s)

(* C4, amended: for output_count = 0 the text handed to the parser is one  *)
(* space followed by { <pc_name>' = 0 }: no register list, no leading      *)
(* comma, and that one space is all there is before the opening brace.     *)
C4_OneSpaceBeforeBrace ==
    \A p \in DOMAIN parsed :
        calls[parsed[p].call].n = 0 =>
            /\ parsed[p].text = <<" ">> \o Clause(calls[parsed[p].call].s)
            /\ Head(parsed[p].text) = " "
            /\ parsed[p].text[2] = "{"

C4_Witness ==
    \E p \in DOMAIN parsed :
        /\ calls[parsed[p].call].op = "return_instruction"
        /\ calls[parsed[p].call].n = 0
        /\ calls[parsed[p].call].s = <<"p", "c">>
        /\ parsed[p].text = <<" ", "{", " ", "p", "c", "'", " ", "=", " ", "0", " ", "}">>

(* C5: for output_count n >= 1 the text handed to the parser is            *)
(* output_at(0), ..., output_at(n-1) joined by ", " (n-1 commas, none      *)
(* leading or trailing), one space, and { <pc_name>' = 0 }; for (2, "pc")  *)
(* it is _output_0, _output_1 { pc' = 0 }.  An accepted text parses to the *)
(* listed registers, the target pc_name and the value 0.                   *)
C5_ReturnTextShape ==
    \A p \in DOMAIN parsed :
        LET c == calls[parsed[p].call]
            text == parsed[p].text
        IN  c.n >= 1 =>
              /\ text = ListedOutputs(c.n) \o <<" ">> \o Clause(c.s)
              /\ CountChar(SubSeq(text, 1, Len(text) - Len(Clause(c.s)) - 1), ",") = c.n - 1
              /\ (c.n = 2 /\ c.s = <<"p", "c">>) =>
                    text = <<"_", "o", "u", "t", "p", "u", "t", "_", "0", ",", " ",
                             "_", "o", "u", "t", "p", "u", "t", "_", "1", " ",
                             "{", " ", "p", "c", "'", " ", "=", " ", "0", " ", "}">>
              /\ c.result.ok =>
                    /\ c.result.target = c.s
                    /\ c.result.value = <<"0">>
                    /\ Len(c.result.params) = c.n

C5_Witness ==
    \E p \in DOMAIN parsed :
        /\ calls[parsed[p].call].op = "return_instruction"
        /\ calls[parsed[p].call].n = 2
        /\ calls[parsed[p].call].s = <<"p", "c">>
        /\ calls[parsed[p].call].result.ok
        /\ CountChar(parsed[p].text, ",") = 1

(* C6: each generated name is the fixed prefix followed by the argument:   *)
(* instr_ and the name (the empty name gives instr_), _input_ or _output_  *)
(* and the index in decimal without sign, padding or leading zeros.        *)
C6_PrefixThenArgument ==
    \A a \in DOMAIN calls :
        LET c == calls[a] IN
        /\ c.op = "instruction_flag" =>
              /\ HasPrefix(c.result, <<"i", "n", "s", "t", "r", "_">>)
              /\ Drop(c.result, 6) = c.s
        /\ c.op = "input_at" =>
              /\ HasPrefix(c.result, <<"_", "i", "n", "p", "u", "t", "_">>)
              /\ IsDecimalOf(Drop(c.result, 7), c.n)
        /\ c.op = "output_at" =>
              /\ HasPrefix(c.result, <<"_", "o", "u", "t", "p", "u", "t", "_">>)
              /\ IsDecimalOf(Drop(c.result, 8), c.n)

C6_Witness ==
    \E a, b \in DOMAIN calls :
        /\ calls[a].op = "instruction_flag" /\ calls[a].s = <<>>
        /\ calls[a].result = <<"i", "n", "s", "t", "r", "_">>
        /\ calls[b].op = "output_at" /\ calls[b].n = 110
        /\ calls[b].result = <<"_", "o", "u", "t", "p", "u", "t", "_", "1", "1", "0">>

ReturnInstructionStep ==
    (Len(calls') = Len(calls) + 1) =>
        LET c == calls'[Len(calls')] IN
        /\ SubSeq(calls', 1, Len(calls)) = calls
        /\ frames' = frames
        /\ IF c.op = "return_instruction"
           THEN /\ Len(parsed') = Len(parsed) + 1
                /\ SubSeq(parsed', 1, Len(parsed)) = parsed
                /\ LET t == parsed'[Len(parsed')] IN
                      /\ t.call = Len(calls')
                      /\ \E m \in 0..Len(t.text) :
                            /\ SubSeq(t.text, m + 1, Len(t.text)) = c.s \o ClauseClose
                            /\ m >= 3 /\ SubSeq(t.text, m - 2, m) = ClauseOpen
                      /\ c.result = parse_instruction(t.text)
           ELSE parsed' = parsed

(* C8: return_instruction validates nothing itself and calls the parser    *)
(* exactly once, on the generated text, in which pc_name stands verbatim;  *)
(* what it returns is the parser's result, so it fails exactly when the    *)
(* parser rejects the text; the call changes nothing earlier calls left.   *)
C8_ParserCalledOnce == [][ReturnInstructionStep]_vars

C8_Witness ==
    \E p, q \in DOMAIN parsed :
        /\ calls[parsed[p].call].s = <<>>
        /\ ~calls[parsed[p].call].result.ok
        /\ parsed[p].text = <<" ", "{", " ", "'", " ", "=", " ", "0", " ", "}">>
        /\ calls[parsed[q].call].s = <<"p", "c">>
        /\ calls[parsed[q].call].result.ok
        /\ Len(parsed) = Len(calls)

(* The result of a frame's call when it runs alone. *)
Alone(f) ==
    CASE f.op = "instruction_flag" -> instruction_flag(f.s)
      [] f.op = "input_at" -> input_at(f.n)
      [] f.op = "output_at" -> output_at(f.n)
      [] f.op = "output_registers" -> output_registers(f.n)
      [] f.op = "return_instruction" -> return_instruction(f.n, f.s)

C10_ReservedNamesApart ==
    /\ \A a \in DOMAIN calls :
          calls[a].op \in NameOps => calls[a].result \notin {RETURN_NAME, RESET_NAME}
    /\ \A a, b \in DOMAIN calls :
          ( /\ calls[a].op = "instruction_flag"
            /\ calls[b].op = "instruction_flag"
            /\ calls[a].s # calls[b].s )
          => calls[a].result # calls[b].result

C10_Witness ==
    \E a, b \in DOMAIN calls :
        /\ calls[a].op = "instruction_flag" /\ calls[a].s = RETURN_NAME
        /\ calls[b].op = "instruction_flag" /\ calls[b].s = RESET_NAME
        /\ calls[a].result # calls[b].result

====
